---------------------------- MODULE Spec2Model ----------------------------
(***************************************************************************)
(* php_tool.py: a tracer that correlates entry/exit probe notifications of *)
(* syscalls and PHP user functions (BPF side: PROGRAM, PHP_TRACE_TEMPLATE, *)
(* SYS_TRACE_TEMPLATE and the plugins registered in c_program) and         *)
(* aggregates the resulting events per process (user side: Process,        *)
(* Callback.__call__, main).                                               *)
(*                                                                         *)
(* The 64-bit words of struct call_t are scaled to WordBits bits: bit      *)
(* WordBits-1 plays the part of bit 63 (the direction flag of call_t.depth)*)
(* and the upper half word the part of "pid >> 32".                        *)
(***************************************************************************)
EXTENDS Integers, Sequences, FiniteSets, TLC

(* ------------------------------ bounds --------------------------------- *)
\* width of the scaled machine word
WordBits == 8
\* the probes stop firing once the clock reads the limit of the run:
\* MaxTime with every probe attached (Spec), MaxTimeOne with one traced process
\* (SpecOne), MaxTimeTwo with two (SpecTwo)
MaxTime == 3
MaxTimeOne == 5
MaxTimeTwo == 4
\* MaxTimeSys with the syscall probes of one traced process (SpecSys) and
\* MaxTimeSysTwo with those of two (SpecSysTwo)
MaxTimeSys == 4
MaxTimeSysTwo == 4
\* capacity of the perf buffer between the probes and the callback
MaxQueue == 1

(* --------------------------- program constants ------------------------- *)
SYSCALL == 1
SYS == 1
FUNC == 2
DISK == 3
NET == 4

Word == 2^WordBits
\* 1ULL << 63
DirBit == 2^(WordBits - 1)
HalfWord == 2^(WordBits \div 2)

\* bpf_get_current_pid_tgid(): (tgid << 32) + pid
PidTgid(tgid, tid) == tgid * HalfWord + tid
\* event.pid >> 32
Tgid(pid) == pid \div HalfWord

\* x & (1 << 63) is non-zero
HasDirBit(x) == (x \div DirBit) % 2 = 1
\* x | (1ULL << 63)
OrDirBit(x) == IF HasDirBit(x) THEN x ELSE x + DirBit
\* x & (~(1 << 63))
MaskDirBit(x) == IF HasDirBit(x) THEN x - DirBit ELSE x
\* a signed long stored in a u64 field
ToU64(x) == x % Word

(* ----------------------- the traced processes -------------------------- *)
\* the threads the probes fire in: two single-threaded traced processes
Pids == {PidTgid(1, 1), PidTgid(2, 2)}

\* the strings of the traced process, by address
StrAt(ptr) ==
    CASE ptr = 10 -> ""
      [] ptr = 11 -> "App"
      [] ptr = 20 -> "main"
      [] ptr = 21 -> "handle"
      [] ptr = 40 -> "index.php"
      [] OTHER -> ""

\* the USDT arguments of a function probe: addresses of class, method, file
Sites == { [clazz |-> 10, method |-> 20, file |-> 40],
           [clazz |-> 11, method |-> 21, file |-> 40] }

\* the traced syscalls the model fires (a subset of SYSCALLS)
SYSCALLS == {"read", "write", "open", "socket", "connect", "close"}
\* args->fd of read/write/connect
Fds == {3, 4}
\* args->ret
Rets == {-1, 3}
\* useraddr->sin_addr.s_addr
Addrs == {9}

\* SyscallEvents.pid_condition: the probe returns at once
pid_condition(pid, pids) == \A p \in pids : Tgid(pid) # p

\* struct call_t data = {}
ZeroEvent ==
    [depth |-> 0, pid |-> 0, lat |-> 0, type |-> 0, fd_type |-> 0, fdw |-> 0,
     fdr |-> 0, fd_ret |-> 0, bytes_write |-> 0, bytes_read |-> 0, addr |-> 0,
     clazz |-> "", method |-> "", file |-> ""]

\* the syscall exit events fed to the aggregator directly: a syscall of no
\* class with and without its entry seen, a write on a socket, a read on a file
SysEvents ==
    { [ZeroEvent EXCEPT !.method = "close", !.lat = 1],
      [ZeroEvent EXCEPT !.method = "close"],
      [ZeroEvent EXCEPT !.method = "write", !.lat = 1, !.fd_type = NET,
                        !.fdw = 3, !.bytes_write = 2],
      [ZeroEvent EXCEPT !.method = "read", !.lat = 2, !.fd_type = DISK,
                        !.fdr = 3, !.bytes_read = 3] }

(* ------------------------------ BPF_HASH ------------------------------- *)
NoMap == [k \in {} |-> 0]
Has(m, k) == k \in DOMAIN m
Update(m, k, v) == [x \in (DOMAIN m) \cup {k} |-> IF x = k THEN v ELSE m[x]]
Delete(m, k) == [x \in (DOMAIN m) \ {k} |-> m[x]]
LookupOrInit(m, k, v) == IF Has(m, k) THEN m ELSE Update(m, k, v)

VARIABLES
    now,              \* bpf_ktime_get_ns()
    entry,            \* BPF_HASH(entry): thread -> depth counter
    start,            \* BPF_HASH(start): thread -> syscall start time
    start_func,       \* BPF_HASH(start_func): call-site id -> start time
    fd,               \* BPF_HASH(fd): thread -> captured handle
    addr,             \* BPF_HASH(addr): thread -> captured address
    filedescriptors,  \* BPF_HASH(filedescriptors): handle -> DISK / NET
    calls,            \* BPF_PERF_OUTPUT(calls): events not yet consumed
    process_dict,     \* Callback.process_dict
    printed,          \* what the last callback invocation wrote to stdout
    running,          \* the tool has not exited
    cancelled,        \* the tool exited on KeyboardInterrupt
    args_syscalls,    \* args.syscalls (-S)
    args_pid,         \* args.pid: the traced processes
    limit,            \* the clock value at which the probes stop
    \* history variables, read by the properties only
    frames,           \* per thread: the open user-function frames
    insys,            \* per thread: the syscall entered and not yet left
    entered,          \* call-site ids whose entry probe has fired
    sysok,            \* per thread: its syscall entries and exits alternated
    owned,            \* per thread: handle -> class, by its process's own calls
    alone,            \* per thread: start_func as the thread alone writes it
    notes,            \* per event of calls: what the probe knew
    done,             \* the event the last callback invocation consumed
    hist,             \* per process key: aggregator history
    plain             \* the aggregator run without -S on the same events

kvars == <<now, entry, start, start_func, fd, addr, filedescriptors>>
uvars == <<process_dict, printed, running, cancelled, done, hist, plain>>
avars == <<args_syscalls, args_pid, limit>>
gvars == <<frames, insys, entered, sysok, owned, alone>>
vars == <<now, entry, start, start_func, fd, addr, filedescriptors, calls,
          process_dict, printed, running, cancelled, args_syscalls,
          args_pid, limit,
          frames, insys, entered, sysok, owned, alone, notes, done, hist,
          plain>>


\* the probes fire in the traced processes only (pid_condition and
\* PHPEvents.generate) and until the tool exits
Attached(pid) == ~pid_condition(pid, args_pid)

(* ------------------------- history bookkeeping ------------------------- *)
NoEntry == 0 - 1
\* the syscall a thread is in: its name, entry time, and the handle and the
\* address its entry probe captured
NoSys == [name |-> "", t |-> NoEntry, fd |-> NoEntry, a |-> NoEntry]
\* what is known of an event when its probe fires: the time; the time of its
\* own entry; no entry of it is outstanding; its call-site was never entered;
\* the function notifications were properly nested so far; so were the
\* syscall notifications; the depth of its frame's entry event (function
\* exit) or of the enclosing frame (syscall); the latency computed from the
\* thread's own records; the class its process gave the handle; the handle
\* and the address captured at its own entry; the number of open frames of
\* its thread around it, its own frame included; the bytes its syscall wrote
\* and read (none when the syscall failed)
NoNote == [at |-> NoEntry, own |-> NoEntry, orphan |-> FALSE,
           fresh |-> FALSE, proper |-> FALSE, ordered |-> FALSE,
           depth |-> NoEntry, alone |-> NoEntry, cls |-> NoEntry,
           handle |-> NoEntry, address |-> NoEntry, level |-> NoEntry,
           moved |-> [w |-> 0, r |-> 0]]
\* per process key: how often its Process was created and destroyed; whether
\* no syscall event was consumed since a function exit event was; the syscall
\* latencies consumed since the last processed function exit event and since
\* the last function entry event; the last function event, if an entry; the
\* bytes written and read on the network and on the disk by the syscall events
\* consumed since the last processed function exit event, as the events
\* carry them and as the syscalls moved them
NoHist == [created |-> 0, destroyed |-> 0, quiet |-> FALSE,
           sinceExit |-> 0, sinceEntry |-> 0, open |-> ZeroEvent,
           nw |-> 0, nr |-> 0, dw |-> 0, dr |-> 0,
           moved |-> [nw |-> 0, nr |-> 0, dw |-> 0, dr |-> 0]]
NoCall == [valid |-> FALSE, ev |-> ZeroEvent, note |-> NoNote,
           pre |-> NoHist, existed |-> FALSE, others |-> {}]

SiteId(site) == (site.clazz + site.method + site.file) % Word

\* the frame a return notification of call-site id closes: the innermost open
\* frame of the thread, when it is a frame of that call-site
TopMatches(stack, id) == stack # <<>> /\ stack[Len(stack)].id = id
OpenFrame(stack, id) == \E i \in 1..Len(stack) : stack[i].id = id
\* every return notification fired so far closed the innermost open frame
ProperSoFar == \A p \in Pids : frames[p].ok

(* ----------------------- PHP_TRACE_TEMPLATE ---------------------------- *)
ProbeDepthAfter(d, is_return) ==
    IF is_return THEN OrDirBit(IF d # 0 THEN d - 1 ELSE d) ELSE (d + 1) % Word

\* PHPEvents.probe: {depth}
ProbeDepth(d, is_return) ==
    IF is_return THEN OrDirBit(d) ELSE (d + 1) % Word

UpdateFuncUnguarded(d, is_return) ==
    IF is_return THEN (d - 1) % Word ELSE (d + 1) % Word

\* PHPEvents.probe: {update_func}
UpdateFunc(d, is_return) ==
    IF is_return THEN (IF d # 0 THEN d - 1 ELSE d) ELSE (d + 1) % Word

\* the key the matched return path removes from start_func
ReturnDeleteKey(site) == site.method

\* the event a function probe submits, and the maps it leaves, with sf as
\* the table start_func
PhpProbeOn(sf, pid, site, is_return) ==
    LET id == SiteId(site)
        entry1 == LookupOrInit(entry, pid, 0)
        d == entry1[pid]
        data == [ZeroEvent EXCEPT !.clazz = StrAt(site.clazz),
                                  !.method = StrAt(site.method),
                                  !.file = StrAt(site.file),
                                  !.type = FUNC,
                                  !.pid = pid,
                                  !.depth = ProbeDepth(d, is_return)]
        entry2 == [entry1 EXCEPT ![pid] = UpdateFunc(d, is_return)]
    IN  IF ~HasDirBit(data.depth)
        THEN [entry |-> entry2, start_func |-> Update(sf, id, now),
              data |-> data]
        ELSE IF ~Has(sf, id)
             THEN [entry |-> entry2, start_func |-> Delete(sf, id),
                   data |-> data]
             ELSE [entry |-> entry2,
                   start_func |-> Delete(sf, ReturnDeleteKey(site)),
                   data |-> [data EXCEPT !.lat = (now - sf[id]) % Word]]

PhpProbeResult(pid, site, is_return) ==
    PhpProbeOn(start_func, pid, site, is_return)

PhpProbe(pid, site, is_return) ==
    LET r == PhpProbeResult(pid, site, is_return)
        solo == PhpProbeOn(alone[pid], pid, site, is_return)
        id == SiteId(site)
        stack == frames[pid].stack
        matched == TopMatches(stack, id)
    IN  /\ running
        /\ Attached(pid)
        /\ now < limit
        /\ Len(calls) < MaxQueue
        /\ now' = now + 1
        /\ entry' = r.entry
        /\ start_func' = r.start_func
        /\ calls' = Append(calls, r.data)
        /\ UNCHANGED <<start, fd, addr, filedescriptors>>
        /\ UNCHANGED <<uvars, avars, insys, sysok, owned>>
        /\ alone' = [alone EXCEPT ![pid] = solo.start_func]
        /\ frames' = [frames EXCEPT ![pid] =
               IF ~is_return
               THEN [stack |-> Append(stack, [id |-> id, t |-> now,
                                              d |-> r.data.depth]),
                     ok |-> frames[pid].ok]
               ELSE IF matched
                    THEN [stack |-> SubSeq(stack, 1, Len(stack) - 1),
                          ok |-> frames[pid].ok]
                    ELSE [stack |-> stack, ok |-> FALSE]]
        /\ entered' = IF is_return THEN entered ELSE entered \cup {id}
        /\ notes' = Append(notes,
               [at |-> now,
                own |-> IF is_return /\ matched
                        THEN stack[Len(stack)].t ELSE NoEntry,
                orphan |-> is_return /\ ~OpenFrame(stack, id),
                fresh |-> is_return /\ id \notin entered,
                proper |-> ProperSoFar /\ (is_return => matched),
                ordered |-> \A p \in Pids : sysok[p],
                depth |-> IF is_return /\ matched
                          THEN stack[Len(stack)].d ELSE NoEntry,
                alone |-> solo.data.lat,
                cls |-> NoEntry, handle |-> NoEntry, address |-> NoEntry,
                level |-> IF is_return THEN Len(stack) ELSE Len(stack) + 1,
                moved |-> [w |-> 0, r |-> 0]])

\* php.probe(pids, "function__entry", "php_entry", ..., is_return=False)
php_entry(pid, site) == PhpProbe(pid, site, FALSE)

\* php.probe(pids, "function__return", "php_return", ..., is_return=True)
php_return(pid, site) == PhpProbe(pid, site, TRUE)

(* ------------------ c_program: the syscall plugins --------------------- *)
ReadLike == {"read"}
WriteLike == {"write", "sendto", "sendmsg"}
OpenLike == {"open", "openat", "creat"}
SocketLike == {"socket"}
AddrLike == {"connect", "bind"}

\* SyscallEvents.plugin: {syscall_enter_logic}; the maps fd and addr it leaves
EnterLogic(name, pid, fdarg, a) ==
    IF name \in ReadLike \cup WriteLike
    THEN [fd |-> Update(fd, pid, fdarg), addr |-> addr]
    ELSE IF name \in AddrLike
         THEN [fd |-> Update(fd, pid, fdarg), addr |-> Update(addr, pid, a)]
         ELSE [fd |-> fd, addr |-> addr]

\* what "filedescriptors.lookup(fdarg)" can read through fdarg once
\* "fd.delete(&pid)" has freed the element fdarg points into: the handle of the
\* thread, or the handle another thread's entry probe writes into the element
\* when its fd.update takes it over
AfterDelete(pid) ==
    IF ~Has(fd, pid)
    THEN {0}
    ELSE {fd[pid]} \cup
         (IF \E q \in Pids : q # pid /\ Attached(q) THEN Fds ELSE {})

HandleLogicKeeping(data, pid, field, seen) ==
    IF Has(fd, pid)
    THEN [data |-> [[data EXCEPT ![field] = fd[pid]] EXCEPT !.fd_type =
                        IF Has(filedescriptors, seen)
                        THEN filedescriptors[seen] ELSE data.fd_type],
          fd |-> fd, addr |-> addr,
          filedescriptors |-> filedescriptors]
    ELSE [data |-> data, fd |-> fd, addr |-> addr,
          filedescriptors |-> filedescriptors]

\* the read and write plugins' exit logic: the handle captured at entry and
\* the class of the handle seen through the pointer after the delete
HandleLogic(data, pid, field, seen) ==
    IF Has(fd, pid)
    THEN [data |-> [[data EXCEPT ![field] = fd[pid]] EXCEPT !.fd_type =
                        IF Has(filedescriptors, seen)
                        THEN filedescriptors[seen] ELSE data.fd_type],
          fd |-> Delete(fd, pid), addr |-> addr,
          filedescriptors |-> filedescriptors]
    ELSE [data |-> data, fd |-> fd, addr |-> addr,
          filedescriptors |-> filedescriptors]

\* SyscallEvents.plugin: {syscall_exit_logic}; the event and the maps it leaves
ExitLogic(name, pid, ret, data, seen) ==
    IF name \in ReadLike
    THEN HandleLogic([data EXCEPT !.bytes_read = ToU64(ret)], pid, "fdr", seen)
    ELSE IF name \in WriteLike
    THEN HandleLogic([data EXCEPT !.bytes_write = ToU64(ret)], pid, "fdw", seen)
    ELSE IF name \in OpenLike \cup SocketLike
    THEN [data |-> [data EXCEPT !.fd_ret = ToU64(ret)],
          fd |-> fd, addr |-> addr,
          filedescriptors |-> Update(filedescriptors, ToU64(ret),
                                     IF name \in OpenLike THEN DISK ELSE NET)]
    ELSE IF name \in AddrLike
    THEN [data |-> [[data EXCEPT !.addr = IF Has(addr, pid) THEN addr[pid]
                                           ELSE data.addr]
                          EXCEPT !.fdw = IF Has(fd, pid) THEN fd[pid]
                                         ELSE data.fdw],
          fd |-> Delete(fd, pid), addr |-> Delete(addr, pid),
          filedescriptors |-> filedescriptors]
    ELSE [data |-> data, fd |-> fd, addr |-> addr,
          filedescriptors |-> filedescriptors]

(* ------------------------ SYS_TRACE_TEMPLATE --------------------------- *)
\* TRACEPOINT_PROBE(syscalls, sys_enter_{syscall_name})
sys_enter(pid, name, fdarg, a) ==
    LET r == EnterLogic(name, pid, fdarg, a)
    IN  /\ running
        /\ Attached(pid)
        /\ now < limit
        /\ now' = now + 1
        /\ start' = Update(start, pid, now)
        /\ fd' = r.fd
        /\ addr' = r.addr
        /\ insys' = [insys EXCEPT ![pid] =
               [name |-> name, t |-> now,
                fd |-> IF name \in ReadLike \cup WriteLike \cup AddrLike
                       THEN fdarg ELSE NoEntry,
                a |-> IF name \in AddrLike THEN a ELSE NoEntry]]
        /\ UNCHANGED <<entry, start_func, filedescriptors, calls, notes>>
        /\ sysok' = [sysok EXCEPT ![pid] = @ /\ insys[pid] = NoSys]
        /\ UNCHANGED <<uvars, avars, frames, entered, owned, alone>>

\* the event sys_exit submits, and the maps it leaves
SysExitResult(pid, name, ret, seen) ==
    LET entry1 == LookupOrInit(entry, pid, 0)
        data == [ZeroEvent EXCEPT !.type = SYS, !.pid = pid,
                                  !.depth = entry1[pid], !.method = name]
    IN  IF ~Has(start, pid)
        THEN [entry |-> entry1, data |-> data, fd |-> fd, addr |-> addr,
              filedescriptors |-> filedescriptors]
        ELSE LET r == ExitLogic(name, pid, ret,
                          [data EXCEPT !.lat = (now - start[pid]) % Word], seen)
             IN  [entry |-> entry1, data |-> r.data, fd |-> r.fd,
                  addr |-> r.addr, filedescriptors |-> r.filedescriptors]

\* TRACEPOINT_PROBE(syscalls, sys_exit_{syscall_name}): a thread leaves the
\* syscall it is in, or one it entered before the probes were attached
sys_exit(pid, name, ret, seen) ==
    LET r == SysExitResult(pid, name, ret, seen)
        matched == insys[pid].name = name
        stack == frames[pid].stack
    IN  /\ running
        /\ insys[pid].name \in {name, ""}
        /\ seen \in AfterDelete(pid)
        /\ Attached(pid)
        /\ now < limit
        /\ Len(calls) < MaxQueue
        /\ now' = now + 1
        /\ entry' = r.entry
        /\ fd' = r.fd
        /\ addr' = r.addr
        /\ filedescriptors' = r.filedescriptors
        /\ calls' = Append(calls, r.data)
        /\ UNCHANGED <<start, start_func>>
        /\ UNCHANGED <<uvars, avars, frames, entered, alone>>
        /\ insys' = [insys EXCEPT ![pid] = NoSys]
        /\ sysok' = [sysok EXCEPT ![pid] = @ /\ matched]
        /\ owned' = IF matched /\ name \in OpenLike \cup SocketLike /\ ret >= 0
                    THEN [owned EXCEPT ![pid] = Update(@, ret,
                              IF name \in OpenLike THEN DISK ELSE NET)]
                    ELSE owned
        /\ notes' = Append(notes,
               [at |-> now,
                own |-> IF matched THEN insys[pid].t ELSE NoEntry,
                orphan |-> insys[pid] = NoSys,
                fresh |-> FALSE,
                proper |-> ProperSoFar,
                ordered |-> matched /\ \A p \in Pids : sysok[p],
                depth |-> IF stack = <<>> THEN 0 ELSE stack[Len(stack)].d,
                alone |-> NoEntry,
                cls |-> IF matched /\ name \in ReadLike \cup WriteLike
                        THEN (IF Has(owned[pid], insys[pid].fd)
                              THEN owned[pid][insys[pid].fd] ELSE 0)
                        ELSE NoEntry,
                handle |-> IF matched THEN insys[pid].fd ELSE NoEntry,
                address |-> IF matched THEN insys[pid].a ELSE NoEntry,
                level |-> Len(stack),
                moved |-> [w |-> IF name \in WriteLike /\ ret > 0 THEN ret ELSE 0,
                           r |-> IF name \in ReadLike /\ ret > 0 THEN ret ELSE 0]])

(* ------------------------------ Process -------------------------------- *)
\* Process(): the class attributes and __init__; total_net_lat and
\* total_disk_lat are the attributes reset() writes and nothing reads
NewProcess ==
    [total_lat |-> 0, total_net_time |-> 0, total_disk_time |-> 0,
     net_write_volume |-> 0, disk_write_volume |-> 0,
     net_read_volume |-> 0, disk_read_volume |-> 0,
     total_net_lat |-> 0, total_disk_lat |-> 0,
     data_buffer |-> <<>>]

resetKeepingTotalLat(p) ==
    [p EXCEPT !.total_net_lat = 0, !.total_disk_lat = 0,
              !.net_write_volume = 0, !.disk_write_volume = 0,
              !.net_read_volume = 0, !.disk_read_volume = 0]

\* Process.reset
reset(p) ==
    [p EXCEPT !.total_lat = 0, !.total_net_lat = 0, !.total_disk_lat = 0,
              !.net_write_volume = 0, !.disk_write_volume = 0,
              !.net_read_volume = 0, !.disk_read_volume = 0]

add_in_bufferFirst(p, line) == [p EXCEPT !.data_buffer = <<line>> \o @]

\* Process.add_in_buffer
add_in_buffer(p, line) == [p EXCEPT !.data_buffer = Append(@, line)]

\* str(x) of an integer
Str(x) == ToString(x)

\* print_event: the three columns; the message is indented by depth - 1
\* PADDINGs and kept as the sequence of its parts
print_event(pid, lat, message, depth) ==
    [pid |-> pid, lat |-> lat, pad |-> depth - 1, message |-> message]

\* syscall_message (colours and the name lookup left out)
syscall_message(event) ==
    <<"sys.", event.method>>
    \o (IF event.fdw > 0 THEN <<" write on fd: ", Str(event.fdw)>> ELSE <<>>)
    \o (IF event.fdr > 0 THEN <<" read fd: ", Str(event.fdr)>> ELSE <<>>)
    \o (IF event.fd_ret > 0 THEN <<" return fd: ", Str(event.fd_ret)>> ELSE <<>>)
    \o (IF event.addr > 0 THEN <<" connect to: ", Str(event.addr)>> ELSE <<>>)

TotalText == "traced syscalls total latence"
NetText == "sys time spent on the network |-> %d bytes written, %d bytes read"
DiskText == "sys time spent on the disk |-> %d bytes written, %d bytes read"

(* -------------------------- Callback.__call__ -------------------------- *)
AccumulateAnyClass(process, event) ==
    LET p1 == [process EXCEPT !.total_lat = @ + event.lat]
    IN  IF event.fd_type = NET \/ event.fd_type = DISK
        THEN LET p2 == [p1 EXCEPT !.total_net_time = @ + event.lat]
             IN  IF event.bytes_write > 0
                 THEN [p2 EXCEPT !.net_write_volume = @ + event.bytes_write]
                 ELSE IF event.bytes_read > 0
                      THEN [p2 EXCEPT !.net_read_volume = @ + event.bytes_read]
                      ELSE p2
        ELSE p1

\* the syscall branch: the totals an event adds to
Accumulate(process, event) ==
    LET p1 == [process EXCEPT !.total_lat = @ + event.lat]
    IN  IF event.fd_type = NET
        THEN LET p2 == [p1 EXCEPT !.total_net_time = @ + event.lat]
             IN  IF event.bytes_write > 0
                 THEN [p2 EXCEPT !.net_write_volume = @ + event.bytes_write]
                 ELSE IF event.bytes_read > 0
                      THEN [p2 EXCEPT !.net_read_volume = @ + event.bytes_read]
                      ELSE p2
        ELSE IF event.fd_type = DISK
             THEN LET p2 == [p1 EXCEPT !.total_disk_time = @ + event.lat]
                  IN  IF event.bytes_write > 0
                      THEN [p2 EXCEPT !.disk_write_volume = @ + event.bytes_write]
                      ELSE IF event.bytes_read > 0
                           THEN [p2 EXCEPT !.disk_read_volume = @ + event.bytes_read]
                           ELSE p2
             ELSE p1

SummaryDiskFirst(process, event, depth) ==
    LET p1 == IF process.total_lat > 0
              THEN add_in_buffer(process, print_event(Tgid(event.pid),
                       Str(process.total_lat), <<TotalText>>, depth))
              ELSE process
        p2 == IF p1.total_disk_time > 0
              THEN add_in_buffer(p1, print_event(Tgid(event.pid),
                       Str(p1.total_disk_time),
                       <<DiskText, Str(p1.disk_write_volume),
                         Str(p1.disk_read_volume)>>, depth))
              ELSE p1
    IN  IF p2.total_net_time > 0
        THEN add_in_buffer(p2, print_event(Tgid(event.pid),
                 Str(p2.total_net_time),
                 <<NetText, Str(p2.net_write_volume),
                   Str(p2.net_read_volume)>>, depth))
        ELSE p2

\* the return branch: the summary lines, buffered in this order
Summary(process, event, depth) ==
    LET p1 == IF process.total_lat > 0
              THEN add_in_buffer(process, print_event(Tgid(event.pid),
                       Str(process.total_lat), <<TotalText>>, depth))
              ELSE process
        p2 == IF p1.total_net_time > 0
              THEN add_in_buffer(p1, print_event(Tgid(event.pid),
                       Str(p1.total_net_time),
                       <<NetText, Str(p1.net_write_volume),
                         Str(p1.net_read_volume)>>, depth))
              ELSE p1
    IN  IF p2.total_disk_time > 0
        THEN add_in_buffer(p2, print_event(Tgid(event.pid),
                 Str(p2.total_disk_time),
                 <<DiskText, Str(p2.disk_write_volume),
                   Str(p2.disk_read_volume)>>, depth))
        ELSE p2

FunctionLineNoPlaceholder(event, depth) ==
    print_event(Tgid(event.pid), Str(event.lat),
                <<IF HasDirBit(event.depth) THEN "<- " ELSE "-> ",
                  event.clazz, ".", event.method, " ", "from ", event.file>>,
                depth)

\* the line of a function event
FunctionLine(event, depth) ==
    print_event(Tgid(event.pid),
                IF event.lat > 0 THEN Str(event.lat) ELSE "-",
                <<IF HasDirBit(event.depth) THEN "<- " ELSE "-> ",
                  event.clazz, ".", event.method, " ", "from ", event.file>>,
                depth)

IsRootReturnAnyDepth(event, depth) ==
    HasDirBit(event.depth) /\ event.method = "main"

\* "Quit the program on the last main return": the condition
IsRootReturn(event, depth) ==
    HasDirBit(event.depth) /\ event.method = "main" /\ depth = 1

UnregisterAll(dict, key) == NoMap

\* del self.process_dict[str(event.pid)]
Unregister(dict, key) == Delete(dict, key)

RegistryEmptyOrNot(dict) == TRUE

\* not self.process_dict
RegistryEmpty(dict) == DOMAIN dict = {}

DiscardedNever(depth) == FALSE

\* "if depth == 0: return"
Discarded(depth) == depth = 0

SyscallLineCharged(process, event, depth, syscalls) ==
    IF ~syscalls
    THEN process
    ELSE add_in_buffer([process EXCEPT !.total_lat = @ + event.lat],
                       print_event(Tgid(event.pid), Str(event.lat),
                                   syscall_message(event), depth))

\* the syscall branch after the totals: "if not self.args.syscalls: return",
\* else the line of the syscall is buffered
SyscallLine(process, event, depth, syscalls) ==
    IF ~syscalls
    THEN process
    ELSE add_in_buffer(process, print_event(Tgid(event.pid), Str(event.lat),
                                            syscall_message(event), depth))

\* Callback.__call__ on one event: the registry it leaves, the arguments of
\* its print calls, and whether it called exit()
CallbackResult(dict, event, syscalls) ==
    LET depth == MaskDirBit(event.depth)
        key == Str(event.pid)
        dict1 == LookupOrInit(dict, key, NewProcess)
        process == dict1[key]
    IN  IF Discarded(depth)
        THEN [dict |-> dict, out |-> <<>>, exit |-> FALSE]
        ELSE IF event.type = SYSCALL
        THEN LET p1 == Accumulate(process, event)
                 p2 == SyscallLine(p1, event, depth, syscalls)
             IN  [dict |-> [dict1 EXCEPT ![key] = p2], out |-> <<>>,
                  exit |-> FALSE]
        ELSE LET p1 == IF HasDirBit(event.depth)
                       THEN (IF SYSCALLS # {}
                             THEN reset(Summary(process, event, depth))
                             ELSE process)
                       ELSE process
                 p2 == add_in_buffer(p1, FunctionLine(event, depth))
                 p3 == [p2 EXCEPT !.data_buffer = <<>>]
             IN  IF IsRootReturn(event, depth)
                 THEN [dict |-> Unregister(dict1, key),
                       out |-> <<p2.data_buffer, p3.data_buffer>>,
                       exit |-> RegistryEmpty(Unregister(dict1, key))]
                 ELSE [dict |-> [dict1 EXCEPT ![key] = p3],
                       out |-> <<p2.data_buffer>>, exit |-> FALSE]

(* ------------------------------- main ---------------------------------- *)
Keys == {Str(p) : p \in Pids}

\* the history of a process key after the callback consumed event
HistAfter(h, event, note, createdNow, destroyedNow) ==
    LET depth == MaskDirBit(event.depth)
        isSys == event.type = SYSCALL
        isRet == ~isSys /\ HasDirBit(event.depth)
        isCall == ~isSys /\ ~HasDirBit(event.depth)
    IN  [created |-> h.created + (IF createdNow THEN 1 ELSE 0),
         destroyed |-> h.destroyed + (IF destroyedNow THEN 1 ELSE 0),
         quiet |-> IF isSys THEN FALSE ELSE IF isRet THEN TRUE ELSE h.quiet,
         sinceExit |-> IF isSys /\ depth # 0 THEN h.sinceExit + event.lat
                       ELSE IF isRet /\ depth # 0 THEN 0 ELSE h.sinceExit,
         sinceEntry |-> IF isSys THEN h.sinceEntry + event.lat
                        ELSE IF isCall THEN 0 ELSE h.sinceEntry,
         open |-> IF isCall THEN event ELSE IF isRet THEN ZeroEvent ELSE h.open,
         nw |-> IF isRet /\ depth # 0 THEN 0
                ELSE IF isSys /\ depth # 0 /\ event.fd_type = NET
                     THEN h.nw + event.bytes_write ELSE h.nw,
         nr |-> IF isRet /\ depth # 0 THEN 0
                ELSE IF isSys /\ depth # 0 /\ event.fd_type = NET
                     THEN h.nr + event.bytes_read ELSE h.nr,
         dw |-> IF isRet /\ depth # 0 THEN 0
                ELSE IF isSys /\ depth # 0 /\ event.fd_type = DISK
                     THEN h.dw + event.bytes_write ELSE h.dw,
         dr |-> IF isRet /\ depth # 0 THEN 0
                ELSE IF isSys /\ depth # 0 /\ event.fd_type = DISK
                     THEN h.dr + event.bytes_read ELSE h.dr,
         moved |->
             IF isRet /\ depth # 0
             THEN [nw |-> 0, nr |-> 0, dw |-> 0, dr |-> 0]
             ELSE IF isSys /\ depth # 0 /\ event.fd_type = NET
             THEN [h.moved EXCEPT !.nw = @ + note.moved.w,
                                  !.nr = @ + note.moved.r]
             ELSE IF isSys /\ depth # 0 /\ event.fd_type = DISK
             THEN [h.moved EXCEPT !.dw = @ + note.moved.w,
                                  !.dr = @ + note.moved.r]
             ELSE h.moved]

\* bpf.perf_buffer_poll(): the callback consumes the oldest event
Callback ==
    /\ running
    /\ calls # <<>>
    /\ LET event == Head(calls)
           key == Str(event.pid)
           r == CallbackResult(process_dict, event, args_syscalls)
           createdNow == MaskDirBit(event.depth) # 0
                         /\ key \notin DOMAIN process_dict
           destroyedNow == MaskDirBit(event.depth) # 0
                           /\ key \notin DOMAIN r.dict
       IN  /\ process_dict' = r.dict
           /\ printed' = r.out
           /\ running' = ~r.exit
           /\ done' = [valid |-> TRUE, ev |-> event, note |-> Head(notes),
                       pre |-> hist[key],
                       existed |-> key \in DOMAIN process_dict,
                       others |-> DOMAIN process_dict \ {key}]
           /\ hist' = [hist EXCEPT ![key] =
                          HistAfter(@, event, Head(notes), createdNow,
                                    destroyedNow)]
           /\ plain' = CallbackResult(plain.dict, event, FALSE)
    /\ calls' = Tail(calls)
    /\ notes' = Tail(notes)
    /\ UNCHANGED <<kvars, cancelled, avars, gvars>>

\* a syscall exit event as sys_exit submits it, drawn from SysEvents instead of
\* computed from the maps: the aggregator's input in SpecOne and SpecTwo
sys_event(pid, shape) ==
    LET entry1 == LookupOrInit(entry, pid, 0)
        data == [shape EXCEPT !.type = SYS, !.pid = pid, !.depth = entry1[pid]]
    IN  /\ running
        /\ Attached(pid)
        /\ now < limit
        /\ Len(calls) < MaxQueue
        /\ now' = now + 1
        /\ entry' = entry1
        /\ calls' = Append(calls, data)
        /\ notes' = Append(notes,
               [at |-> now,
                own |-> IF shape.lat > 0 THEN now - shape.lat ELSE NoEntry,
                orphan |-> shape.lat = 0,
                fresh |-> FALSE,
                proper |-> ProperSoFar,
                ordered |-> shape.lat > 0,
                depth |-> IF frames[pid].stack = <<>> THEN 0
                          ELSE frames[pid].stack[Len(frames[pid].stack)].d,
                alone |-> NoEntry, cls |-> NoEntry,
                handle |-> NoEntry, address |-> NoEntry,
                level |-> Len(frames[pid].stack),
                moved |-> [w |-> shape.bytes_write, r |-> shape.bytes_read]])
        /\ UNCHANGED <<start, start_func, fd, addr, filedescriptors>>
        /\ UNCHANGED <<uvars, avars, gvars>>

\* except KeyboardInterrupt: exit()
Interrupt ==
    /\ running
    /\ running' = FALSE
    /\ cancelled' = TRUE
    /\ UNCHANGED <<kvars, calls, notes, process_dict, printed, done, hist,
                   plain, avars, gvars>>

InitWith(pids, lim) ==
    /\ now = 0
    /\ entry = NoMap
    /\ start = NoMap
    /\ start_func = NoMap
    /\ fd = NoMap
    /\ addr = NoMap
    /\ filedescriptors = NoMap
    /\ calls = <<>>
    /\ process_dict = NoMap
    /\ printed = <<>>
    /\ running = TRUE
    /\ cancelled = FALSE
    /\ args_syscalls \in BOOLEAN
    /\ args_pid = pids
    /\ limit = lim
    /\ frames = [p \in Pids |-> [stack |-> <<>>, ok |-> TRUE]]
    /\ insys = [p \in Pids |-> NoSys]
    /\ entered = {}
    /\ sysok = [p \in Pids |-> TRUE]
    /\ owned = [p \in Pids |-> NoMap]
    /\ alone = [p \in Pids |-> NoMap]
    /\ notes = <<>>
    /\ done = NoCall
    /\ hist = [k \in Keys |-> NoHist]
    /\ plain = [dict |-> NoMap, out |-> <<>>, exit |-> FALSE]

\* php_tool.py 1 2: every probe of the BPF program
Init == InitWith({1, 2}, MaxTime)

Next ==
    \/ \E pid \in Pids, site \in Sites : php_entry(pid, site)
    \/ \E pid \in Pids, site \in Sites : php_return(pid, site)
    \/ \E pid \in Pids, name \in SYSCALLS, fdarg \in Fds, a \in Addrs :
           sys_enter(pid, name, fdarg, a)
    \/ \E pid \in Pids, name \in SYSCALLS, ret \in Rets, seen \in Fds \cup {0} :
           sys_exit(pid, name, ret, seen)
    \/ Callback
    \/ Interrupt

Spec == Init /\ [][Next]_vars

\* php_tool.py 1: the function probes, and syscall exit events drawn from
\* SysEvents
InitOne == InitWith({1}, MaxTimeOne)

NextOne ==
    \/ \E pid \in Pids, site \in Sites : php_entry(pid, site)
    \/ \E pid \in Pids, site \in Sites : php_return(pid, site)
    \/ \E pid \in Pids, shape \in SysEvents : sys_event(pid, shape)
    \/ Callback

SpecOne == InitOne /\ [][NextOne]_vars

\* php_tool.py 1 2: as SpecOne, with two traced processes and the interrupt
InitTwo == InitWith({1, 2}, MaxTimeTwo)

NextTwo ==
    \/ \E pid \in Pids, site \in Sites : php_entry(pid, site)
    \/ \E pid \in Pids, site \in Sites : php_return(pid, site)
    \/ \E pid \in Pids, shape \in SysEvents : sys_event(pid, shape)
    \/ Callback
    \/ Interrupt

SpecTwo == InitTwo /\ [][NextTwo]_vars

\* php_tool.py 1 while the traced process runs no PHP function: the syscall
\* probes
InitSys == InitWith({1}, MaxTimeSys)

NextSys ==
    \/ \E pid \in Pids, name \in SYSCALLS, fdarg \in Fds, a \in Addrs :
           sys_enter(pid, name, fdarg, a)
    \/ \E pid \in Pids, name \in SYSCALLS, ret \in Rets, seen \in Fds \cup {0} :
           sys_exit(pid, name, ret, seen)
    \/ Callback

SpecSys == InitSys /\ [][NextSys]_vars

\* php_tool.py 1 2: as SpecSys, with two traced processes
InitSysTwo == InitWith({1, 2}, MaxTimeSysTwo)

NextSysTwo ==
    \/ \E pid \in Pids, name \in SYSCALLS, fdarg \in Fds, a \in Addrs :
           sys_enter(pid, name, fdarg, a)
    \/ \E pid \in Pids, name \in SYSCALLS, ret \in Rets, seen \in Fds \cup {0} :
           sys_exit(pid, name, ret, seen)
    \/ Callback

SpecSysTwo == InitSysTwo /\ [][NextSysTwo]_vars

\* php_tool.py 1 while the traced process runs PHP functions that open and
\* read files: the function probes and the probes of open and of read
MaxTimeFile == 6
FileSyscalls == {"read", "open"}

InitFile == InitWith({1}, MaxTimeFile)

NextFile ==
    \/ \E pid \in Pids, site \in Sites : php_entry(pid, site)
    \/ \E pid \in Pids, site \in Sites : php_return(pid, site)
    \/ \E pid \in Pids, name \in FileSyscalls, fdarg \in Fds, a \in Addrs :
           sys_enter(pid, name, fdarg, a)
    \/ \E pid \in Pids, name \in FileSyscalls, ret \in Rets,
             seen \in Fds \cup {0} :
           sys_exit(pid, name, ret, seen)
    \/ Callback

SpecFile == InitFile /\ [][NextFile]_vars

(* ----------------------------- properties ------------------------------ *)
IsSysEvent(e) == e.type = SYSCALL
IsExitEvent(e) == e.type = FUNC /\ HasDirBit(e.depth)
IsEntryEvent(e) == e.type = FUNC /\ ~HasDirBit(e.depth)
\* a user-function exit event at effective depth 1 of the method "main"
IsMainReturnAtDepth1(e) ==
    IsExitEvent(e) /\ MaskDirBit(e.depth) = 1 /\ e.method = "main"
DoneKey == Str(done.ev.pid)

\* the lines the last callback invocation printed
PrintedLines == IF printed = <<>> THEN <<>> ELSE printed[1]
LinesWith(first) ==
    {i \in 1..Len(PrintedLines) : PrintedLines[i].message[1] = first}
SummaryLines == LinesWith(TotalText) \cup LinesWith(NetText) \cup LinesWith(DiskText)
\* the summary reports n as the total syscall latency (no total line for 0)
ReportsTotal(n) ==
    IF n = 0
    THEN LinesWith(TotalText) = {}
    ELSE /\ Cardinality(LinesWith(TotalText)) = 1
         /\ \A i \in LinesWith(TotalText) : PrintedLines[i].lat = Str(n)
\* exactly one function-return line was printed, with the placeholder
OneReturnLineWithPlaceholder ==
    /\ Cardinality(LinesWith("<- ")) = 1
    /\ \A i \in LinesWith("<- ") : PrintedLines[i].lat = "-"

\* C1: in a properly nested sequence of function notifications, the latency
\* of every exit event is the exit time minus the time of its own entry.
C1_LatencyIsExitMinusOwnEntry ==
    \A i \in 1..Len(calls) :
        (IsExitEvent(calls[i]) /\ notes[i].proper /\ notes[i].own # NoEntry)
            => calls[i].lat = notes[i].at - notes[i].own

\* the last callback consumed the return event of a frame that made no nested
\* function call: the process's previous function event was its entry event
DoneLeafReturn ==
    /\ done.valid
    /\ IsExitEvent(done.ev)
    /\ done.note.own # NoEntry
    /\ IsEntryEvent(done.pre.open)
    /\ done.pre.open.depth = MaskDirBit(done.ev.depth)
    /\ done.pre.open.clazz = done.ev.clazz
    /\ done.pre.open.method = done.ev.method
    /\ done.pre.open.file = done.ev.file

\* C2 as claimed: at the return of a frame without nested calls, the total
\* syscall latency of the summary is the sum of the latencies of the syscall
\* events received between the frame's entry event and its return event.
C2_TotalIsSumSinceEntry ==
    DoneLeafReturn => ReportsTotal(done.pre.sinceEntry)

\* C2 as amended: at a function return processed at non-zero depth, the total
\* syscall latency of the summary is the sum of the latencies of the syscall
\* events the process received at non-zero depth since its previous processed
\* function return (or since its first event): those of the frame and those
\* received before the frame's entry.
C2_TotalIsSumSinceLastReturn ==
    (done.valid /\ IsExitEvent(done.ev) /\ MaskDirBit(done.ev.depth) # 0)
        => ReportsTotal(done.pre.sinceExit)

\* a frame without nested calls returned, with syscalls inside it and
\* syscalls before its entry, and the summary reported them all
C2_Witness ==
    /\ DoneLeafReturn
    /\ done.pre.sinceEntry > 0
    /\ done.pre.sinceExit > done.pre.sinceEntry
    /\ ReportsTotal(done.pre.sinceExit)

\* C3: right after a function exit event was processed, the seven running
\* totals of the process are zero.
C3_TotalsZeroAfterExit ==
    (/\ done.valid
     /\ IsExitEvent(done.ev)
     /\ MaskDirBit(done.ev.depth) # 0
     /\ DoneKey \in DOMAIN process_dict)
        => LET p == process_dict[DoneKey]
           IN  /\ p.total_lat = 0
               /\ p.total_net_time = 0
               /\ p.total_disk_time = 0
               /\ p.net_write_volume = 0
               /\ p.net_read_volume = 0
               /\ p.disk_write_volume = 0
               /\ p.disk_read_volume = 0

\* C4: a function exit processed after another function exit of the same
\* process, with no syscall event of the process between them, prints no
\* summary line.
C4_SecondExitPrintsNoSummary ==
    (done.valid /\ IsExitEvent(done.ev) /\ done.pre.quiet)
        => SummaryLines = {}

\* C5 as claimed: the Process of a process id is created at most once and
\* destroyed at most once.
C5_CreatedAtMostOnce ==
    \A k \in Keys : hist[k].created <= 1 /\ hist[k].destroyed <= 1

\* C5 as amended: an event of non-zero depth creates the Process of its
\* process id whenever none is registered, also after one was destroyed; every
\* Process created is destroyed at most once, so that the destructions of a
\* process id never outnumber its creations, and the two differ exactly while
\* a Process is registered.
C5_DestroyedOncePerCreation ==
    \A k \in Keys :
        hist[k].created - hist[k].destroyed =
            (IF k \in DOMAIN process_dict THEN 1 ELSE 0)

\* a Process was destroyed and a later event of the same process id created
\* another
C5_Witness ==
    \E k \in Keys :
        hist[k].created = 2 /\ hist[k].destroyed = 1 /\ k \in DOMAIN process_dict

\* C6: a Process leaves the registry when and only when the callback processes
\* a function exit event of method "main" at effective depth 1, and then it is
\* the Process of that event's process id alone.
C6_RemovedOnlyByRootReturn ==
    [][\A k \in Keys :
          LET consumes == calls # <<>> /\ Len(calls') = Len(calls) - 1
              root == consumes /\ IsMainReturnAtDepth1(Head(calls))
                               /\ Str(Head(calls).pid) = k
          IN  /\ (k \in DOMAIN process_dict /\ k \notin DOMAIN process_dict')
                     => root
              /\ root => k \notin DOMAIN process_dict']_vars

\* a root-frame return removed the Process of its process id and left the
\* other one registered
C6_Witness ==
    /\ done.valid
    /\ IsMainReturnAtDepth1(done.ev)
    /\ done.existed
    /\ DoneKey \notin DOMAIN process_dict
    /\ done.others # {}
    /\ done.others = DOMAIN process_dict

\* C7: without an interrupt the tool has exited exactly when the destruction
\* of a Process left the registry empty: it has not exited while a Process is
\* registered or before any was created, and it is not running with a registry
\* that is empty after a Process was created.
C7_ExitsExactlyWhenRegistryEmptied ==
    /\ (~running /\ ~cancelled)
           => /\ DOMAIN process_dict = {}
              /\ done.valid
              /\ IsMainReturnAtDepth1(done.ev)
              /\ hist[DoneKey].destroyed >= 1
    /\ (running /\ DOMAIN process_dict = {})
           => \A k \in Keys : hist[k].created = 0

\* the tool exited when the last of two Processes was destroyed
C7_Witness ==
    /\ ~running
    /\ ~cancelled
    /\ \A k \in Keys : hist[k].created >= 1 /\ hist[k].destroyed >= 1

\* C8 as claimed: for a function exit notification of a call-site whose entry
\* was never observed, whatever the thread's depth counter, the tool prints
\* exactly one function-return line with the placeholder "-" and goes on.
C8_UnmatchedExitPrintsOneLine ==
    (done.valid /\ IsExitEvent(done.ev) /\ done.note.fresh)
        => OneReturnLineWithPlaceholder /\ running

\* C8 as amended: for a function exit notification whose call-site identity
\* (clazz + method + file) never had an entry observed, the tool prints exactly
\* one function-return line with the placeholder "-" when the thread's depth
\* counter is non-zero, and goes on unless that exit is the return of "main"
\* at depth 1 that empties the registry; when the depth counter is 0 the event
\* is discarded: nothing is printed and the tool goes on.
C8_UnmatchedExitAtDepth ==
    (done.valid /\ IsExitEvent(done.ev) /\ done.note.fresh)
        => IF MaskDirBit(done.ev.depth) = 0
           THEN printed = <<>> /\ running
           ELSE /\ OneReturnLineWithPlaceholder
                /\ (running \/ (IsMainReturnAtDepth1(done.ev)
                                /\ DOMAIN process_dict = {}))

\* an exit of a call-site never entered arrived at depth 1 and was printed
\* with the placeholder
C8_Witness ==
    /\ done.valid
    /\ IsExitEvent(done.ev)
    /\ done.note.fresh
    /\ MaskDirBit(done.ev.depth) = 1
    /\ OneReturnLineWithPlaceholder
    /\ running

\* C9: an entry event has latency 0, and so has the exit event of a syscall
\* or function whose own entry was not observed.
C9_ZeroLatencyWithoutOwnEntry ==
    \A i \in 1..Len(calls) :
        /\ IsEntryEvent(calls[i]) => calls[i].lat = 0
        /\ ((IsExitEvent(calls[i]) \/ IsSysEvent(calls[i])) /\ notes[i].orphan)
               => calls[i].lat = 0

\* the value of a depth counter read as a signed integer
Signed(x) == IF HasDirBit(x) THEN x - Word ELSE x

\* C10: the depth counter of every thread is non-negative and never exceeds
\* the number of the thread's open frames: an exit at depth 0 leaves it 0.
C10_DepthNeverNegative ==
    \A p \in DOMAIN entry :
        Signed(entry[p]) >= 0 /\ entry[p] <= Len(frames[p].stack)

\* a return fired in a thread with no open frame and left the counter at 0
C10_Witness ==
    \E p \in DOMAIN entry :
        entry[p] = 0 /\ ~frames[p].ok /\ frames[p].stack = <<>>


\* the notifications of every thread arrived in order so far: each function
\* return closed the innermost open frame, each syscall exit followed its entry
OrderedSoFar == ProperSoFar /\ \A p \in Pids : sysok[p]

\* C11: under per-thread-ordered delivery, a pending start time exists for a
\* thread exactly while a syscall of the thread is entered and not yet left,
\* and for a call-site exactly while a frame of that call-site is open: the
\* matching exit removes the record.
C11_PendingIffEnteredNotLeft ==
    OrderedSoFar =>
        /\ \A p \in Pids : Has(start, p) <=> insys[p] # NoSys
        /\ \A site \in Sites :
               Has(start_func, SiteId(site))
                   <=> \E p \in Pids : OpenFrame(frames[p].stack, SiteId(site))


\* a buffer or an output without the lines of the syscalls
DropSyscallLines(buffer) == SelectSeq(buffer, LAMBDA l : l.message[1] # "sys.")

\* C12: with and without -S the aggregator keeps the same totals after every
\* event, prints the same summary and function lines and exits at the same
\* event: the run with -S differs by the lines of the syscalls only.
C12_DetailModeOnlyAddsLines ==
    /\ DOMAIN process_dict = DOMAIN plain.dict
    /\ \A k \in DOMAIN process_dict :
           [process_dict[k] EXCEPT !.data_buffer = DropSyscallLines(@)]
               = plain.dict[k]
    /\ Len(printed) = Len(plain.out)
    /\ \A i \in 1..Len(printed) : DropSyscallLines(printed[i]) = plain.out[i]
    /\ plain.exit <=> (~running /\ ~cancelled)
    /\ ~args_syscalls => printed = plain.out

\* with -S a function return printed the lines of the frame's syscalls and a
\* summary, and without -S the same summary was printed
C12_Witness ==
    /\ args_syscalls
    /\ done.valid
    /\ IsExitEvent(done.ev)
    /\ LinesWith("sys.") # {}
    /\ LinesWith(TotalText) # {}
    /\ LinesWith(DiskText) # {}
    /\ plain.out # <<>>
    /\ plain.out[1] = DropSyscallLines(printed[1])
    /\ Len(plain.out[1]) < Len(printed[1])


\* C13: the class attached to the exit event of a read or write on a handle
\* is the class the latest handle-creating call of the same process that
\* returned the handle registered (DISK for open, NET for socket), and none
\* when the process never created the handle, whatever the other traced
\* processes create.
C13_ClassIsOwnLatestCreation ==
    \A i \in 1..Len(calls) :
        (IsSysEvent(calls[i]) /\ notes[i].ordered /\ notes[i].cls # NoEntry)
            => calls[i].fd_type = notes[i].cls


\* the handle and the address of the i-th pending event are those captured at
\* the entry of its own syscall, and none when that entry captured none
CarriesOwnStash(i) ==
    LET e == calls[i]
        n == notes[i]
    IN  /\ e.fdr = (IF e.method \in ReadLike THEN n.handle ELSE 0)
        /\ e.fdw = (IF e.method \in WriteLike \cup AddrLike THEN n.handle ELSE 0)
        /\ e.addr = (IF e.method \in AddrLike THEN n.address ELSE 0)

\* C14: when every thread's notifications are well-formed, the events of a
\* thread are those it emits when it runs alone: a function event has the
\* latency computed from the start times the thread itself recorded, a syscall
\* event the latency since its own entry and the handle and address captured
\* there.
C14_EventsAsIfAlone ==
    \A i \in 1..Len(calls) :
        /\ (calls[i].type = FUNC /\ notes[i].proper)
               => calls[i].lat = notes[i].alone
        /\ (IsSysEvent(calls[i]) /\ notes[i].ordered)
               => /\ calls[i].lat = notes[i].at - notes[i].own
                  /\ CarriesOwnStash(i)


\* C15: the callback leaves the aggregator as it is when the event it consumes
\* has effective depth 0, syscall or function event: no Process is created or
\* changed, nothing is buffered or printed, and the tool does not exit.
C15_DepthZeroChangesNothing ==
    [][(/\ calls # <<>>
        /\ Len(calls') = Len(calls) - 1
        /\ MaskDirBit(Head(calls).depth) = 0)
           => /\ process_dict' = process_dict
              /\ printed' = <<>>
              /\ running' = running]_vars

\* a syscall event of depth 0 was consumed while the Process of its process
\* id was registered
C15_Witness ==
    /\ done.valid
    /\ IsSysEvent(done.ev)
    /\ MaskDirBit(done.ev.depth) = 0
    /\ DoneKey \in DOMAIN process_dict
    /\ printed = <<>>
    /\ running


\* the callback consumes the oldest pending event in this step
Consumes == calls # <<>> /\ Len(calls') = Len(calls) - 1
\* the lines buffered for a process id
BufferOf(dict, key) == IF key \in DOMAIN dict THEN dict[key].data_buffer ELSE <<>>
\* the line of a function event as it is printed
ExpectedLine(e, arrow) ==
    [pid |-> e.pid \div HalfWord,
     lat |-> IF e.lat > 0 THEN ToString(e.lat) ELSE "-",
     pad |-> MaskDirBit(e.depth) - 1,
     message |-> <<arrow, e.clazz, ".", e.method, " ", "from ", e.file>>]

\* C16 as claimed: after a function entry event was processed nothing was
\* printed, and the call line is the last line of the process's buffer.
C16_EntryBuffersWithoutFlush ==
    (done.valid /\ IsEntryEvent(done.ev))
        => /\ printed = <<>>
           /\ BufferOf(process_dict, DoneKey) # <<>>
           /\ LET b == BufferOf(process_dict, DoneKey)
              IN  b[Len(b)] = ExpectedLine(done.ev, "-> ")

\* C16 as amended: processing a function entry event appends the call line to
\* the process's buffer and flushes it at once: the lines buffered before,
\* followed by the call line, are printed in buffering order, and the buffer
\* is empty afterwards; the totals are left as they were.
C16_EntryFlushesBuffer ==
    [][(Consumes /\ IsEntryEvent(Head(calls)))
           => LET e == Head(calls)
                  k == Str(e.pid)
                  old == IF k \in DOMAIN process_dict
                         THEN process_dict[k] ELSE NewProcess
              IN  /\ printed' = <<Append(old.data_buffer, ExpectedLine(e, "-> "))>>
                  /\ k \in DOMAIN process_dict'
                  /\ process_dict'[k] = [old EXCEPT !.data_buffer = <<>>]
                  /\ running']_vars

\* a function entry event printed a syscall line buffered before it and its
\* own call line, and left the buffer empty
C16_Witness ==
    /\ done.valid
    /\ IsEntryEvent(done.ev)
    /\ Len(printed) = 1
    /\ Len(PrintedLines) >= 2
    /\ LinesWith("sys.") # {}
    /\ PrintedLines[Len(PrintedLines)] = ExpectedLine(done.ev, "-> ")
    /\ BufferOf(process_dict, DoneKey) = <<>>


\* a summary line as it is printed for event e: its latency column and text
ExpectedSummary(e, lat, message) ==
    [pid |-> e.pid \div HalfWord, lat |-> ToString(lat),
     pad |-> MaskDirBit(e.depth) - 1, message |-> message]

\* C17: a function exit event appends, in this order, the syscall total line
\* if the total syscall latency is positive, the network line if the network
\* latency is positive, the disk line if the disk latency is positive, each
\* with the bytes written and read since the last function exit, and the
\* return line; the whole buffer is then printed in buffering order and is
\* empty afterwards.
C17_ExitLinesInOrder ==
    [][(Consumes /\ IsExitEvent(Head(calls))
                 /\ MaskDirBit(Head(calls).depth) # 0)
           => LET e == Head(calls)
                  k == Str(e.pid)
                  old == IF k \in DOMAIN process_dict
                         THEN process_dict[k] ELSE NewProcess
                  total == IF old.total_lat > 0
                           THEN <<ExpectedSummary(e, old.total_lat, <<TotalText>>)>>
                           ELSE <<>>
                  net == IF old.total_net_time > 0
                         THEN <<ExpectedSummary(e, old.total_net_time,
                                  <<NetText, ToString(hist[k].nw),
                                    ToString(hist[k].nr)>>)>>
                         ELSE <<>>
                  disk == IF old.total_disk_time > 0
                          THEN <<ExpectedSummary(e, old.total_disk_time,
                                   <<DiskText, ToString(hist[k].dw),
                                     ToString(hist[k].dr)>>)>>
                          ELSE <<>>
              IN  /\ printed' # <<>>
                  /\ printed'[1] = old.data_buffer \o total \o net \o disk
                                       \o <<ExpectedLine(e, "<- ")>>
                  /\ \A i \in 2..Len(printed') : printed'[i] = <<>>
                  /\ BufferOf(process_dict', k) = <<>>]_vars

\* a function return printed a buffered syscall line, the three summary lines
\* in the order total, network, disk, and its return line last
C17_Witness ==
    /\ done.valid
    /\ IsExitEvent(done.ev)
    /\ LinesWith("sys.") # {}
    /\ \E t \in LinesWith(TotalText), n \in LinesWith(NetText),
          d \in LinesWith(DiskText), r \in LinesWith("<- ") :
           /\ \A x \in LinesWith("sys.") : x < t
           /\ t < n
           /\ n < d
           /\ d < r
           /\ r = Len(PrintedLines)
    /\ BufferOf(process_dict, DoneKey) = <<>>


\* C18: a syscall event of non-zero depth adds its latency to the total
\* syscall latency of its Process and, by its class, to the network latency
\* and byte counts only, to the disk latency and byte counts only, or to no
\* class total; every other Process is left as it was and none is destroyed.
C18_SyscallAddsToItsClassOnly ==
    [][(Consumes /\ IsSysEvent(Head(calls))
                 /\ MaskDirBit(Head(calls).depth) # 0)
           => LET e == Head(calls)
                  k == Str(e.pid)
                  old == IF k \in DOMAIN process_dict
                         THEN process_dict[k] ELSE NewProcess
                  isNet == e.fd_type = NET
                  isDisk == e.fd_type = DISK
              IN  /\ DOMAIN process_dict' = DOMAIN process_dict \cup {k}
                  /\ \A j \in DOMAIN process_dict \ {k} :
                         process_dict'[j] = process_dict[j]
                  /\ LET new == process_dict'[k]
                     IN  /\ new.total_lat = old.total_lat + e.lat
                         /\ new.total_net_time = old.total_net_time
                                + (IF isNet THEN e.lat ELSE 0)
                         /\ new.net_write_volume = old.net_write_volume
                                + (IF isNet THEN e.bytes_write ELSE 0)
                         /\ new.net_read_volume = old.net_read_volume
                                + (IF isNet THEN e.bytes_read ELSE 0)
                         /\ new.total_disk_time = old.total_disk_time
                                + (IF isDisk THEN e.lat ELSE 0)
                         /\ new.disk_write_volume = old.disk_write_volume
                                + (IF isDisk THEN e.bytes_write ELSE 0)
                         /\ new.disk_read_volume = old.disk_read_volume
                                + (IF isDisk THEN e.bytes_read ELSE 0)]_vars

\* a read on a file was added to the disk totals of its Process, not to its
\* network totals, while the Process of the other process id was registered
C18_Witness ==
    /\ done.valid
    /\ IsSysEvent(done.ev)
    /\ done.ev.fd_type = DISK
    /\ MaskDirBit(done.ev.depth) # 0
    /\ done.others # {}
    /\ DOMAIN process_dict = done.others \cup {DoneKey}
    /\ process_dict[DoneKey].total_lat = done.ev.lat
    /\ process_dict[DoneKey].total_disk_time = done.ev.lat
    /\ process_dict[DoneKey].disk_read_volume = done.ev.bytes_read
    /\ process_dict[DoneKey].disk_read_volume > 0
    /\ process_dict[DoneKey].total_net_time = 0


\* C19: while the function notifications of the threads are properly nested,
\* every function event carries as effective depth the number of open frames
\* down to its own (1 for the outermost), the exit event of a frame the depth
\* of the frame's entry event, and a syscall event the depth of the frame it
\* was issued in.
C19_DepthOfFrame ==
    \A i \in 1..Len(calls) :
        notes[i].proper =>
            /\ MaskDirBit(calls[i].depth) = notes[i].level
            /\ IsExitEvent(calls[i])
                   => MaskDirBit(calls[i].depth) = notes[i].depth
            /\ IsSysEvent(calls[i]) => calls[i].depth = notes[i].depth

\* a nested frame returned: its exit event carries depth 2, as its entry did
C19_Witness ==
    \E i \in 1..Len(calls) :
        /\ notes[i].proper
        /\ IsExitEvent(calls[i])
        /\ notes[i].depth = 2
        /\ MaskDirBit(calls[i].depth) = 2
        /\ notes[i].level = 2


\* C20: while the syscall exits of a thread follow their entries, the tables
\* fd and addr hold no entry of the thread once it has left a syscall, and a
\* syscall exit event carries the handle and the address captured at its own
\* entry, never those of an earlier syscall.
C20_StashClearedAtExit ==
    /\ \A p \in Pids :
           (sysok[p] /\ insys[p] = NoSys) => (~Has(fd, p) /\ ~Has(addr, p))
    /\ \A i \in 1..Len(calls) :
           (IsSysEvent(calls[i]) /\ notes[i].ordered) => CarriesOwnStash(i)

\* the second syscall of a thread was a connect: its exit event carries the
\* handle and the address of its entry, and both tables are empty again
C20_Witness ==
    \E i \in 1..Len(calls) :
        /\ IsSysEvent(calls[i])
        /\ notes[i].ordered
        /\ notes[i].at >= 3
        /\ calls[i].method = "connect"
        /\ calls[i].fdw \in Fds
        /\ calls[i].fdw = notes[i].handle
        /\ calls[i].addr \in Addrs
        /\ calls[i].addr = notes[i].address
        /\ ~Has(fd, calls[i].pid)
        /\ ~Has(addr, calls[i].pid)


\* C21: the byte volumes a function return reports on its network line and
\* on its disk line are the bytes the syscalls of the class wrote and read
\* since the last function return: a read or write that failed, with a
\* negative return value, counts for no byte.
C21_VolumesAreBytesMoved ==
    (done.valid /\ IsExitEvent(done.ev) /\ MaskDirBit(done.ev.depth) # 0)
        => /\ \A i \in LinesWith(NetText) :
                  PrintedLines[i].message =
                      <<NetText, ToString(done.pre.moved.nw),
                        ToString(done.pre.moved.nr)>>
           /\ \A i \in LinesWith(DiskText) :
                  PrintedLines[i].message =
                      <<DiskText, ToString(done.pre.moved.dw),
                        ToString(done.pre.moved.dr)>>


\* C21, the failing case: a failed read of a file of the process was counted
\* within a function, and
\* the disk line of the function's return reports its return value, 2^w - 1,
\* as bytes read
C21_FailedReadReported ==
    /\ done.valid /\ IsExitEvent(done.ev) /\ MaskDirBit(done.ev.depth) # 0
    /\ done.pre.moved.dr = 0
    /\ \E i \in LinesWith(DiskText) :
           PrintedLines[i].message =
               <<DiskText, "0", ToString(ToU64(0 - 1))>>

=============================================================================
